---- MODULE Spec2Model ----
(***************************************************************************)
(* INVASE feature-importance engine (src/src/invase/method.py).           *)
(* One state machine per component: the bitmask enumerator, the masking   *)
(* sampler, the importance target builders, the critic training loop with *)
(* explain, and the cross-validated ensemble.                             *)
(***************************************************************************)
EXTENDS Integers, Sequences, FiniteSets

\* ------------------------------------------------------------- bounds
\* largest mask length the enumerator is run with
MaxN == 4
\* range(low, high) is explored for low down to -LowSlack
LowSlack == 3

\* largest batch length / horizon count of an importance target, and the
\* largest number of accumulator cells (features x instances x horizons)
MaxB == 3
MaxH == 2
MaxCells == 6
\* masks per chunk of the batched leave-one-out phase (64 in method.py:397,
\* scaled down so that several chunks occur)
LooChunk == 2
\* samples per interaction level of the batched strategy (10 in
\* method.py:421, scaled down)
SamplesPerLevel == 2
\* training: n_epoch in 1..MaxEpochs, n_epoch_print in 1..MaxPrint, patience
\* in 0..MaxPatience, min_epochs in 0..MaxMinEpochs, n_batches in
\* 1..MaxBatches, validation losses in 1..MaxValLoss
MaxEpochs == 4
MaxPrint == 2
MaxPatience == 1
MaxMinEpochs == 1
MaxBatches == 2
MaxValLoss == 2
\* mini-batches: training sets of 1..MaxTrainN instances, self.batch_size
\* in 1..MaxBatchSize
MaxTrainN == 4
MaxBatchSize == 3
\* a fold model's importance scores range over 0..MaxOut (fixed point)
MaxOut == 1
\* feature values range over -1..MaxVal
MaxVal == 1

\* ------------------------------------------------------------ helpers
\* [v] * n
Repeat(v, n) == [i \in 1..n |-> v]

\* number of positions of s holding v
Count(s, v) == Cardinality({i \in 1..Len(s) : s[i] = v})

\* ------------------------------------------------- Bitmask Enumerator
\* a variant of bitmasks that yields [1]*n in the m <= 0 branch
RECURSIVE bitmasks_ones(_, _)
bitmasks_ones(n, m) ==
  IF m < n
    THEN IF m > 0
           THEN [i \in 1..Len(bitmasks_ones(n - 1, m - 1)) |->
                     <<1>> \o bitmasks_ones(n - 1, m - 1)[i]]
                \o [i \in 1..Len(bitmasks_ones(n - 1, m)) |->
                     <<0>> \o bitmasks_ones(n - 1, m)[i]]
           ELSE << Repeat(1, n) >>
    ELSE << Repeat(1, n) >>

\* a variant of bitmasks that leaves out the second recursive loop
RECURSIVE bitmasks_skip(_, _)
bitmasks_skip(n, m) ==
  IF m < n
    THEN IF m > 0
           THEN [i \in 1..Len(bitmasks_skip(n - 1, m - 1)) |->
                     <<1>> \o bitmasks_skip(n - 1, m - 1)[i]]
           ELSE << Repeat(0, n) >>
    ELSE << Repeat(1, n) >>

\* bitmasks(n, m): the masks in the order the generator yields them
RECURSIVE bitmasks(_, _)
bitmasks(n, m) ==
  IF m < n
    THEN IF m > 0
           THEN [i \in 1..Len(bitmasks(n - 1, m - 1)) |->
                     <<1>> \o bitmasks(n - 1, m - 1)[i]]
                \o [i \in 1..Len(bitmasks(n - 1, m)) |->
                     <<0>> \o bitmasks(n - 1, m)[i]]
           ELSE << Repeat(0, n) >>
    ELSE << Repeat(1, n) >>

\* bitmask_intervals(n, low, high): for k in range(low, high), bitmasks(n, k)
RECURSIVE bitmask_intervals(_, _, _)
bitmask_intervals(n, low, high) ==
  IF low >= high THEN << >>
  ELSE bitmasks(n, low) \o bitmask_intervals(n, low + 1, high)

VARIABLES
  gen_n,       \* enumerator argument n
  gen_low,     \* enumerator argument low
  gen_high,    \* enumerator argument high
  gen_out,     \* masks yielded so far
  gen_done     \* the generator is exhausted

genVars == <<gen_n, gen_low, gen_high, gen_out, gen_done>>

VARIABLES
  masking_values,    \* Masking.masking_values: per feature, the observed values
  features_vector,   \* tensors[0] of the last forward call
  selection_vector,  \* tensors[1] of the last forward call
  sampled_mask,      \* the draws, after the sentinel assignment
  mk_equal,          \* features_vector == sampled_mask, before the assignment
  mk_result,         \* what forward returned
  mk_pc              \* "call": forward is about to run, "done": it returned

maskVars == <<masking_values, features_vector, selection_vector, sampled_mask,
              mk_equal, mk_result, mk_pc>>

VARIABLES
  imp_method,        \* "normal" | "optimized" (classifier) | "risk"
  n_features,        \* x.shape[-1]
  len_x,             \* len(x)
  n_times,           \* len(self.eval_times) (risk), 0 otherwise
  epochs_inner,      \* self.epochs_inner
  importance,        \* the accumulator, in units of 1e-8
  imp_pc,            \* "loo" | "inter" | "done"
  imp_i,             \* leave-one-out masks processed so far
  imp_consumed,      \* masks pulled from bitmask_generator so far
  next_slice,        \* the current window of masks
  imp_inner,         \* inner passes done on the current window
  imp_windows,       \* windows scored so far
  interaction_level, \* optimized: current interaction_level
  imp_sample,        \* optimized: samples drawn at this level
  selected_features, \* optimized: the last sampled feature subset
  imp_out            \* what _importance_test returned: cells <<num, den>>

impVars == <<imp_method, n_features, len_x, n_times, epochs_inner, importance,
             imp_pc, imp_i, imp_consumed, next_slice, imp_inner, imp_windows,
             interaction_level, imp_sample, selected_features, imp_out>>

VARIABLES
  tr_kind,          \* "classifier" (invaseClassifier) | "risk"
  epochs,           \* self.epochs
  cfg_patience,     \* self.patience
  min_epochs,       \* self.min_epochs
  n_epoch_print,    \* self.n_epoch_print
  n_batches,        \* n_batches of _train
  tr_pc,            \* "start" | "batch" | "epoch_end" | "frozen"
  epoch,            \* the loop variable of _train
  tr_b,             \* the batch loop variable b
  patience,         \* the local patience counter
  best_val_loss,    \* the local best_val_loss
  val_loss,         \* the last validation loss
  early_stop,       \* the epoch loop was left by break
  critic,           \* the critic's trainable parameters
  critic_training,  \* nn.Module.training of the critic
  grad_steps,       \* critic_solver.step() calls so far
  invoked,          \* the collaborators the last step invoked
  explain_x,        \* the input of the last explain call
  explain_out       \* what the last explain call returned

trainVars == <<tr_kind, epochs, cfg_patience, min_epochs, n_epoch_print,
               n_batches, tr_pc, epoch, tr_b, patience, best_val_loss, val_loss,
               early_stop, critic, critic_training, grad_steps, invoked,
               explain_x, explain_out>>

VARIABLES
  n_folds,      \* the n_folds argument of invaseCV
  fold_models,  \* self.fold_models
  cv_pc,        \* "construct" | "ready"
  cv_x,         \* the input of the last invaseCV.explain call
  cv_result,    \* its local list `result`: one output per fold model
  cv_mean       \* what it returned: cells <<num, den>>

cvVars == <<n_folds, fold_models, cv_pc, cv_x, cv_result, cv_mean>>

VARIABLES
  loo_F,        \* x.shape[-1] of the two leave-one-out phases run side by side
  loo_B,        \* len(x)
  loo_loss,     \* loo_loss[i][f]: the estimator's loss for instance i with
                \* only feature f hidden
  loo_normal,   \* importance of _importance_test_normal
  loo_batched,  \* importance of _importance_test_optimized
  all_masks,    \* the leave-one-out masks, in the enumerator's order
  loo_i,        \* masks the loop of line 350 has processed
  loo_c         \* masks the chunk loop of line 399 has processed

looVars == <<loo_F, loo_B, loo_loss, loo_normal, loo_batched, all_masks,
             loo_i, loo_c>>

VARIABLES
  train_n,         \* n = x_train.shape[0]
  self_batch_size, \* self.batch_size
  batch_size,      \* the local batch_size of _train (line 183)
  epoch_batches,   \* the local n_batches of _train (line 184)
  train_indices,   \* train_indices, 0-based values, after the shuffle
  batch_b,         \* the loop variable b of line 191
  batches,         \* the idx arrays taken in this epoch, in order
  batch_pc         \* "shuffle" | "batch" | "epoch_done"

batchVars == <<train_n, self_batch_size, batch_size, epoch_batches,
               train_indices, batch_b, batches, batch_pc>>

vars == <<genVars, maskVars, impVars, trainVars, cvVars, looVars, batchVars>>

\* the other components, idle
GenIdle ==
  /\ gen_n = 1 /\ gen_low = 0 /\ gen_high = 0
  /\ gen_out = << >> /\ gen_done = TRUE

MaskIdle ==
  /\ masking_values = << >> /\ features_vector = << >>
  /\ selection_vector = << >> /\ sampled_mask = << >>
  /\ mk_equal = << >> /\ mk_result = << >> /\ mk_pc = "idle"

ImpIdle ==
  /\ imp_method = "none" /\ n_features = 0 /\ len_x = 0 /\ n_times = 0
  /\ epochs_inner = 0 /\ importance = << >> /\ imp_pc = "idle"
  /\ imp_i = 0 /\ imp_consumed = 0 /\ next_slice = << >> /\ imp_inner = 0
  /\ imp_windows = 0 /\ interaction_level = 0 /\ imp_sample = 0
  /\ selected_features = {}
  /\ imp_out = << >>

TrainIdle ==
  /\ tr_kind = "none" /\ epochs = 0 /\ cfg_patience = 0 /\ min_epochs = 0
  /\ n_epoch_print = 1 /\ n_batches = 0 /\ tr_pc = "idle" /\ epoch = 0
  /\ tr_b = 0 /\ patience = 0 /\ best_val_loss = 0 /\ val_loss = 0
  /\ early_stop = FALSE /\ critic = << >> /\ critic_training = FALSE
  /\ grad_steps = 0 /\ invoked = {} /\ explain_x = << >>
  /\ explain_out = << >>

CVIdle ==
  /\ n_folds = 0 /\ fold_models = << >> /\ cv_pc = "idle" /\ cv_x = << >>
  /\ cv_result = << >> /\ cv_mean = << >>

LooIdle ==
  /\ loo_F = 0 /\ loo_B = 0 /\ loo_loss = << >> /\ loo_normal = << >>
  /\ loo_batched = << >> /\ all_masks = << >> /\ loo_i = 0 /\ loo_c = 0

BatchIdle ==
  /\ train_n = 0 /\ self_batch_size = 0 /\ batch_size = 0
  /\ epoch_batches = 0 /\ train_indices = << >> /\ batch_b = 0
  /\ batches = << >> /\ batch_pc = "idle"

\* a call bitmask_intervals(n, low, high) before its first yield
GenInit ==
  /\ gen_n \in 1..MaxN
  /\ gen_low \in (0 - LowSlack)..MaxN
  /\ gen_high \in (0 - LowSlack)..(MaxN + 1)
  /\ gen_out = << >>
  /\ gen_done = FALSE
  /\ MaskIdle /\ ImpIdle /\ TrainIdle /\ CVIdle /\ LooIdle
  /\ BatchIdle

\* one next() on the generator: the next mask is yielded
GenYield ==
  /\ ~gen_done
  /\ Len(gen_out) < Len(bitmask_intervals(gen_n, gen_low, gen_high))
  /\ gen_out' = Append(gen_out,
                  bitmask_intervals(gen_n, gen_low, gen_high)[Len(gen_out) + 1])
  /\ UNCHANGED <<gen_n, gen_low, gen_high, gen_done, maskVars, impVars,
               trainVars, cvVars, looVars, batchVars>>

\* one next() on the generator: both loops are over, StopIteration
GenStop ==
  /\ ~gen_done
  /\ Len(gen_out) = Len(bitmask_intervals(gen_n, gen_low, gen_high))
  /\ gen_done' = TRUE
  /\ UNCHANGED <<gen_n, gen_low, gen_high, gen_out, maskVars, impVars,
               trainVars, cvVars, looVars, batchVars>>

GenNext == GenYield \/ GenStop

SpecEnum == GenInit /\ [][GenNext]_vars

\* ---------------------------------------------------- Masking Sampler
\* the value written over a draw that equals the original (line 87)
SENTINEL == -1

\* the values a feature can take in a data set
Values == -1..MaxVal

\* row and column indices of the data set the sampler is built from
MaskRows == {1, 2}
MaskCols == {1, 2}

\* np.unique(col) for every column of X (lines 260-262, 467-469)
UniqueColumns(X) ==
  [f \in 1..Len(X[1]) |-> {X[i][f] : i \in 1..Len(X)}]

\* line 87: sampled_mask[(features_vector == sampled_mask)] = -1
MarkEqual(features, rand) ==
  [i \in 1..Len(features) |-> [f \in 1..Len(features[i]) |->
     IF features[i][f] = rand[i][f] THEN SENTINEL ELSE rand[i][f]]]

\* a variant of the blend that takes the draw at every position
Blend_all(features, selection, sampled) ==
  [i \in 1..Len(features) |-> [f \in 1..Len(features[i]) |-> sampled[i][f]]]

\* lines 89-91: features * selection + (1 - selection) * sampled_mask
Blend(features, selection, sampled) ==
  [i \in 1..Len(features) |-> [f \in 1..Len(features[i]) |->
     features[i][f] * selection[i][f]
       + (1 - selection[i][f]) * sampled[i][f]]]

\* Masking(masking_values) built from a data set X, and a batch of its rows
\* with a selection mask handed to forward
MaskInit ==
  /\ \E X \in [MaskRows -> [MaskCols -> Values]] :
       /\ masking_values = UniqueColumns(X)
       /\ features_vector = X
  /\ selection_vector \in [MaskRows -> [MaskCols -> {0, 1}]]
  /\ sampled_mask = << >>
  /\ mk_equal = << >>
  /\ mk_result = << >>
  /\ mk_pc = "call"
  /\ GenIdle /\ ImpIdle /\ TrainIdle /\ CVIdle /\ LooIdle
  /\ BatchIdle

\* Masking.forward (lines 63-94); the shape checks pass for these inputs
Forward ==
  /\ mk_pc = "call"
  /\ \E rand \in [1..Len(features_vector) ->
                   [1..Len(masking_values) -> Values]] :
       /\ \A i \in 1..Len(features_vector) : \A f \in 1..Len(masking_values) :
            rand[i][f] \in masking_values[f]
       /\ mk_equal' = [i \in 1..Len(features_vector) |->
                        [f \in 1..Len(masking_values) |->
                           features_vector[i][f] = rand[i][f]]]
       /\ sampled_mask' = MarkEqual(features_vector, rand)
       /\ mk_result' = Blend(features_vector, selection_vector,
                             MarkEqual(features_vector, rand))
  /\ mk_pc' = "done"
  /\ UNCHANGED <<masking_values, features_vector, selection_vector, genVars,
               impVars, trainVars, cvVars, looVars, batchVars>>

MaskNext == Forward

SpecMasking == MaskInit /\ [][MaskNext]_vars

\* ------------------------------------------- Importance Target Builder
\* EPS = 1e-8; the accumulator is held in units of EPS
EPS == 1

\* one unit of loss (1e-5) in accumulator units; the interaction terms
\* are weighted 1e-3, so they add loss * 1 and the leave-one-out terms
\* loss * LOSS_UNIT
LOSS_UNIT == 1000

\* the losses the estimator can return, in units of 1e-5
Losses == {0, 1}

\* the feature counts and the values of n_epoch_inner a target is built with
ImpFeatures(method) ==
  IF method = "optimized" THEN {1, 2, 3, 4} ELSE {1, 2, 3}
ImpInner == {1, 2}

Max2(a, b) == IF a >= b THEN a ELSE b
Min2(a, b) == IF a <= b THEN a ELSE b
MaxOf(S) == CHOOSE m \in S : \A v \in S : v <= m
MinOf(S) == CHOOSE m \in S : \A v \in S : m <= v
RowValues(row) == {row[f] : f \in 1..Len(row)}

\* _importance_init (lines 329-330, 524-525)
ImportanceInit(method, B, F, H) ==
  IF method = "risk"
    THEN [i \in 1..B |-> [f \in 1..F |-> [h \in 1..H |-> 0]]]
    ELSE [i \in 1..B |-> [f \in 1..F |-> 0]]

\* the leave-one-out enumeration (lines 350, 396, 535)
LooMasks(F) == bitmask_intervals(F, F - 1, F)

\* the interaction-tier enumeration (lines 359-361, 547-549)
InteractionMasks(method, F) ==
  IF method = "risk" THEN bitmask_intervals(F, F - 2, F - 1)
  ELSE bitmask_intervals(F, F - 3, F - 1)

\* a variant of the window that fills a short last window from the start
\* of the enumeration
ISlice_pad(all, consumed, B) ==
  IF consumed < Len(all)
    THEN [k \in 1..B |-> all[((consumed + k - 1) % Len(all)) + 1]]
    ELSE << >>

\* itertools.islice(bitmask_generator, len(x)) after `consumed` masks
ISlice(all, consumed, B) ==
  SubSeq(all, consumed + 1, Min2(consumed + B, Len(all)))

\* line 356: torch.max(importance, ((1 - mask).T * baseline_loss).T), the
\* mask broadcast over the rows
LooMax(imp, mask, loss) ==
  [i \in 1..Len(imp) |-> [f \in 1..Len(imp[i]) |->
     Max2(imp[i][f], (1 - mask[f]) * loss[i] * LOSS_UNIT)]]

\* lines 541-544: the same per horizon idx
LooMaxRisk(imp, mask, loss) ==
  [i \in 1..Len(imp) |-> [f \in 1..Len(imp[i]) |->
     [h \in 1..Len(imp[i][f]) |->
        Max2(imp[i][f][h], (1 - mask[f]) * loss[i][h] * LOSS_UNIT)]]]

\* a variant of lines 416-417 that keeps the chunk's maximum only
LooMaxChunk_last(imp, masks, losses) ==
  [i \in 1..Len(imp) |-> [f \in 1..Len(imp[i]) |->
     MaxOf({(1 - masks[c][f]) * losses[i][c] * LOSS_UNIT :
              c \in 1..Len(masks)})]]

\* lines 416-417: max over the chunk's masks, then max with the accumulator
LooMaxChunk(imp, masks, losses) ==
  [i \in 1..Len(imp) |-> [f \in 1..Len(imp[i]) |->
     Max2(imp[i][f],
          MaxOf({(1 - masks[c][f]) * losses[i][c] * LOSS_UNIT :
                   c \in 1..Len(masks)}))]]

\* lines 377-379, 432: importance += 1e-3 * ((1 - mask).T * baseline_loss).T
InteractionAdd(imp, mask, loss) ==
  [i \in 1..Len(imp) |-> [f \in 1..Len(imp[i]) |->
     imp[i][f] + (1 - mask[i][f]) * loss[i]]]

\* lines 565-568: the same per horizon idx
InteractionAddRisk(imp, mask, loss) ==
  [i \in 1..Len(imp) |-> [f \in 1..Len(imp[i]) |->
     [h \in 1..Len(imp[i][f]) |->
        imp[i][f][h] + (1 - mask[i][f]) * loss[i][h]]]]

\* lines 425-427: zeros, then ones at the selected features
SelectedMask(B, F, selected) ==
  [i \in 1..B |-> [f \in 1..F |-> IF f \in selected THEN 1 ELSE 0]]

\* a variant that takes the maximum before the minimum is subtracted
NormalizeNormal_stale(imp) ==
  [i \in 1..Len(imp) |->
     LET lo == MinOf(RowValues(imp[i]))
         hi == MaxOf(RowValues(imp[i]))
     IN [f \in 1..Len(imp[i]) |-> <<imp[i][f] - lo, hi + EPS>>]]

\* lines 383-384: importance -= min; importance /= max + EPS
NormalizeNormal(imp) ==
  [i \in 1..Len(imp) |->
     LET lo == MinOf(RowValues(imp[i]))
         shifted == [f \in 1..Len(imp[i]) |-> imp[i][f] - lo]
         hi == MaxOf(RowValues(shifted))
     IN [f \in 1..Len(imp[i]) |-> <<shifted[f], hi + EPS>>]]

\* lines 435-436: (importance - min) / (max - min + EPS)
NormalizeOptimized(imp) ==
  [i \in 1..Len(imp) |->
     LET lo == MinOf(RowValues(imp[i]))
         hi == MaxOf(RowValues(imp[i]))
     IN [f \in 1..Len(imp[i]) |-> <<imp[i][f] - lo, hi - lo + EPS>>]]

\* lines 572-576: the normalisation is commented out, the accumulator is
\* returned as it is
ReturnRisk(imp) ==
  [i \in 1..Len(imp) |-> [f \in 1..Len(imp[i]) |->
     [h \in 1..Len(imp[i][f]) |-> <<imp[i][f][h], 1>>]]]

\* line 420
MaxInteractions(F) == Min2(3, F - 1)

\* a call _importance_test(estimator, x, y)
ImpInit ==
  /\ imp_method \in {"normal", "optimized", "risk"}
  /\ n_features \in ImpFeatures(imp_method)
  /\ len_x \in 1..MaxB
  /\ n_times \in 0..MaxH
  /\ (imp_method = "risk") = (n_times > 0)
  /\ n_features * len_x * Max2(n_times, 1) <= MaxCells
  /\ epochs_inner \in ImpInner
  /\ importance = ImportanceInit(imp_method, len_x, n_features, n_times)
  /\ imp_pc = "loo"
  /\ imp_i = 0 /\ imp_consumed = 0 /\ next_slice = << >> /\ imp_inner = 0
  /\ imp_windows = 0 /\ interaction_level = 0 /\ imp_sample = 0
  /\ selected_features = {}
  /\ imp_out = << >>
  /\ GenIdle /\ MaskIdle /\ TrainIdle /\ CVIdle /\ LooIdle
  /\ BatchIdle

\* one iteration of the leave-one-out loop (lines 350-356, 535-544)
LooMask ==
  /\ imp_pc = "loo" /\ imp_method \in {"normal", "risk"}
  /\ imp_i < Len(LooMasks(n_features))
  /\ LET mask == LooMasks(n_features)[imp_i + 1] IN
       /\ IF imp_method = "risk"
            THEN \E loss \in [1..len_x -> [1..n_times -> Losses]] :
                   importance' = LooMaxRisk(importance, mask, loss)
            ELSE \E loss \in [1..len_x -> Losses] :
                   importance' = LooMax(importance, mask, loss)
  /\ imp_i' = imp_i + 1
  /\ UNCHANGED <<imp_method, n_features, len_x, n_times, epochs_inner, imp_pc,
                 imp_consumed, next_slice, imp_inner, imp_windows,
                 interaction_level, imp_sample, selected_features, imp_out,
                 genVars, maskVars, trainVars, cvVars, looVars, batchVars>>

\* lines 359-362, 547-550: the generator is made and the first window drawn
FirstSlice ==
  /\ imp_pc = "loo" /\ imp_method \in {"normal", "risk"}
  /\ imp_i = Len(LooMasks(n_features))
  /\ next_slice' = ISlice(InteractionMasks(imp_method, n_features), 0, len_x)
  /\ imp_consumed' = Len(next_slice')
  /\ imp_inner' = 0
  /\ imp_pc' = "inter"
  /\ UNCHANGED <<imp_method, n_features, len_x, n_times, epochs_inner,
                 importance, imp_i, imp_windows, interaction_level, imp_sample,
                 selected_features, imp_out,
                 genVars, maskVars, trainVars, cvVars, looVars, batchVars>>

\* one inner pass over a full window (lines 367-379, 555-568): every row of
\* the window is permuted on its own, masked, scored and accumulated
InnerPass ==
  /\ imp_pc = "inter" /\ imp_method \in {"normal", "risk"}
  /\ Len(next_slice) = len_x
  /\ imp_inner < epochs_inner
  /\ \E mask \in [1..len_x -> [1..n_features -> {0, 1}]] :
       /\ \A i \in 1..len_x : Count(mask[i], 1) = Count(next_slice[i], 1)
       /\ IF imp_method = "risk"
            THEN \E loss \in [1..len_x -> [1..n_times -> Losses]] :
                   importance' = InteractionAddRisk(importance, mask, loss)
            ELSE \E loss \in [1..len_x -> Losses] :
                   importance' = InteractionAdd(importance, mask, loss)
  /\ imp_inner' = imp_inner + 1
  /\ UNCHANGED <<imp_method, n_features, len_x, n_times, epochs_inner, imp_pc,
                 imp_i, imp_consumed, next_slice, imp_windows,
                 interaction_level, imp_sample, selected_features, imp_out,
                 genVars, maskVars, trainVars, cvVars, looVars, batchVars>>

\* line 381, 570: the inner passes are over, the next window is drawn
NextSlice ==
  /\ imp_pc = "inter" /\ imp_method \in {"normal", "risk"}
  /\ Len(next_slice) = len_x
  /\ imp_inner = epochs_inner
  /\ next_slice' = ISlice(InteractionMasks(imp_method, n_features),
                          imp_consumed, len_x)
  /\ imp_consumed' = imp_consumed + Len(next_slice')
  /\ imp_inner' = 0
  /\ imp_windows' = imp_windows + 1
  /\ UNCHANGED <<imp_method, n_features, len_x, n_times, epochs_inner,
                 importance, imp_pc, imp_i, interaction_level, imp_sample,
                 selected_features, imp_out,
                 genVars, maskVars, trainVars, cvVars, looVars, batchVars>>

\* lines 364, 383-386 and 552, 572-576: the window is not full, the loop
\* ends and the target is returned
Finish ==
  /\ imp_pc = "inter" /\ imp_method \in {"normal", "risk"}
  /\ Len(next_slice) # len_x
  /\ imp_out' = IF imp_method = "risk" THEN ReturnRisk(importance)
                ELSE NormalizeNormal(importance)
  /\ imp_pc' = "done"
  /\ UNCHANGED <<imp_method, n_features, len_x, n_times, epochs_inner,
                 importance, imp_i, imp_consumed, next_slice, imp_inner,
                 imp_windows, interaction_level, imp_sample,
                 selected_features, genVars, maskVars, trainVars, cvVars, looVars, batchVars>>

\* one chunk of the batched leave-one-out phase (lines 399-417)
LooChunkStep ==
  /\ imp_pc = "loo" /\ imp_method = "optimized"
  /\ imp_i < Len(LooMasks(n_features))
  /\ LET batch_masks == SubSeq(LooMasks(n_features), imp_i + 1,
                               Min2(imp_i + LooChunk, n_features)) IN
       \E losses \in [1..len_x -> [1..Len(batch_masks) -> Losses]] :
         importance' = LooMaxChunk(importance, batch_masks, losses)
  /\ imp_i' = Min2(imp_i + LooChunk, n_features)
  /\ UNCHANGED <<imp_method, n_features, len_x, n_times, epochs_inner, imp_pc,
                 imp_consumed, next_slice, imp_inner, imp_windows,
                 interaction_level, imp_sample, selected_features, imp_out,
                 genVars, maskVars, trainVars, cvVars, looVars, batchVars>>

\* lines 420-423: the chunks are over, the interaction loops start
StartInteractions ==
  /\ imp_pc = "loo" /\ imp_method = "optimized"
  /\ imp_i = Len(LooMasks(n_features))
  /\ interaction_level' = 2
  /\ imp_sample' = 0
  /\ imp_pc' = "inter"
  /\ UNCHANGED <<imp_method, n_features, len_x, n_times, epochs_inner,
                 importance, imp_i, imp_consumed, next_slice, imp_inner,
                 imp_windows, selected_features, imp_out, genVars, maskVars,
                 trainVars, cvVars, looVars, batchVars>>

\* one sample of one interaction level (lines 424-432)
InteractionSample ==
  /\ imp_pc = "inter" /\ imp_method = "optimized"
  /\ interaction_level <= MaxInteractions(n_features)
  /\ \E selected \in SUBSET (1..n_features) :
       /\ Cardinality(selected) = interaction_level
       /\ selected_features' = selected
       /\ \E loss \in [1..len_x -> Losses] :
            importance' = InteractionAdd(importance,
                             SelectedMask(len_x, n_features, selected), loss)
  /\ IF imp_sample + 1 = SamplesPerLevel
       THEN interaction_level' = interaction_level + 1 /\ imp_sample' = 0
       ELSE interaction_level' = interaction_level
            /\ imp_sample' = imp_sample + 1
  /\ UNCHANGED <<imp_method, n_features, len_x, n_times, epochs_inner, imp_pc,
                 imp_i, imp_consumed, next_slice, imp_inner, imp_windows,
                 imp_out, genVars, maskVars, trainVars, cvVars, looVars, batchVars>>

\* lines 434-438: the levels are over, normalise and return
FinishOptimized ==
  /\ imp_pc = "inter" /\ imp_method = "optimized"
  /\ interaction_level > MaxInteractions(n_features)
  /\ imp_out' = NormalizeOptimized(importance)
  /\ imp_pc' = "done"
  /\ UNCHANGED <<imp_method, n_features, len_x, n_times, epochs_inner,
                 importance, imp_i, imp_consumed, next_slice, imp_inner,
                 imp_windows, interaction_level, imp_sample,
                 selected_features, genVars, maskVars, trainVars, cvVars, looVars, batchVars>>

ImpNext ==
  \/ LooMask \/ FirstSlice \/ InnerPass \/ NextSlice \/ Finish
  \/ LooChunkStep \/ StartInteractions \/ InteractionSample
  \/ FinishOptimized

SpecImportance == ImpInit /\ [][ImpNext]_vars

\* --------------------- the two leave-one-out phases on the same losses
\* the losses of the side-by-side run, in units of 1e-5: the cross entropy
\* of line 309 is below 0 when the predicted probability is 1
LooLosses == {-1, 0, 1}

\* the feature a leave-one-out mask hides
Hidden(mask) == CHOOSE f \in 1..Len(mask) : mask[f] = 0

\* the end of the chunk that starts after c masks (line 400)
ChunkEnd(c, masks) == Min2(c + LooChunk, Len(masks))

\* both builders are entered with the same x; _baseline_metric returns
\* loo_loss[i][f] for instance i under the mask that hides f
LooInit ==
  /\ loo_F \in 1..MaxCells
  /\ all_masks = LooMasks(loo_F)
  /\ loo_B \in 1..MaxB
  /\ loo_F * loo_B <= MaxCells
  /\ loo_loss \in [1..loo_B -> [1..loo_F -> LooLosses]]
  /\ loo_normal = ImportanceInit("normal", loo_B, loo_F, 0)
  /\ loo_batched = ImportanceInit("optimized", loo_B, loo_F, 0)
  /\ loo_i = 0 /\ loo_c = 0
  /\ GenIdle /\ MaskIdle /\ ImpIdle /\ TrainIdle /\ CVIdle /\ BatchIdle

\* one iteration of the loop of lines 350-356
LooNormalStep ==
  /\ loo_i < Len(all_masks)
  /\ LET mask == all_masks[loo_i + 1]
         baseline_loss == [i \in 1..loo_B |-> loo_loss[i][Hidden(mask)]]
     IN loo_normal' = LooMax(loo_normal, mask, baseline_loss)
  /\ loo_i' = loo_i + 1
  /\ UNCHANGED <<loo_F, loo_B, loo_loss, loo_batched, all_masks, loo_c,
                 genVars, maskVars, impVars, trainVars, cvVars, batchVars>>

\* one iteration of the chunk loop of lines 399-417
LooBatchedStep ==
  /\ loo_c < Len(all_masks)
  /\ LET batch_masks == SubSeq(all_masks, loo_c + 1,
                               ChunkEnd(loo_c, all_masks))
         baseline_losses ==
           [i \in 1..loo_B |-> [c \in 1..Len(batch_masks) |->
              loo_loss[i][Hidden(batch_masks[c])]]]
     IN loo_batched' = LooMaxChunk(loo_batched, batch_masks, baseline_losses)
  /\ loo_c' = ChunkEnd(loo_c, all_masks)
  /\ UNCHANGED <<loo_F, loo_B, loo_loss, loo_normal, all_masks, loo_i,
                 genVars, maskVars, impVars, trainVars, cvVars, batchVars>>

LooNext == LooNormalStep \/ LooBatchedStep

SpecLoo == LooInit /\ [][LooNext]_vars

\* ------------------------------------------ Critic and Training Loop
\* best_val_loss before the first validation (line 179)
BEST_INIT == 99999999

\* the critics a training run can start from or step to: four Linear
\* layers of width 1, each <<weight, bias>>
ParamSpace ==
  {[w |-> <<a, a, a, a>>, bias |-> <<c, c, c, c>>] : a \in {-1, 2}, c \in {0, 1}}

\* the inputs explain is called with: one instance of one feature
ExplainInputs == {<< <<1>> >>, << <<2>> >>}

ValLosses == 1..MaxValLoss

\* activations are fractions <<num, den>>, den > 0
FracEq(u, v) == u[1] * v[2] = v[1] * u[2]

\* nn.Linear, layer k of the critic
Linear(p, k, v) == <<p.w[k] * v[1] + p.bias[k] * v[2], v[2]>>

\* nn.ReLU
ReLU(v) == <<Max2(v[1], 0), v[2]>>

\* nn.LeakyReLU(), negative_slope 0.01
LeakyReLU(v) == IF v[1] >= 0 THEN v ELSE <<v[1], 100 * v[2]>>

\* nn.Dropout(0.1): the identity in evaluation mode; in training mode the
\* unit is zeroed or scaled by 1 / (1 - 0.1)
Dropout(training, keep, v) ==
  IF ~training THEN v
  ELSE IF keep THEN <<10 * v[1], 9 * v[2]>> ELSE <<0, 9 * v[2]>>

\* invaseClassifier._build_critic (lines 287-300) on one feature value; the
\* result is the argument of the final Sigmoid
ClassifierCritic(p, training, x, keep) ==
  LET h1 == Dropout(training, keep[1], ReLU(Linear(p, 1, <<x, 1>>)))
      h2 == Dropout(training, keep[2], ReLU(Linear(p, 2, h1)))
      h3 == Dropout(training, keep[3], ReLU(Linear(p, 3, h2)))
  IN Linear(p, 4, h3)

\* invaseRiskEstimation._build_critic (lines 487-496) on one feature value
RiskCritic(p, x) ==
  LET h1 == LeakyReLU(Linear(p, 1, <<x, 1>>))
      h2 == LeakyReLU(Linear(p, 2, h1))
      h3 == LeakyReLU(Linear(p, 3, h2))
  IN Linear(p, 4, h3)

\* self.critic(X): keep[i] are instance i's dropout draws
CriticForward(kind, p, training, X, keep) ==
  [i \in 1..Len(X) |->
     << IF kind = "risk" THEN RiskCritic(p, X[i][1])
        ELSE ClassifierCritic(p, training, X[i][1], keep[i]) >>]

\* a variant of line 223 that also takes an equal loss as an improvement
Improved_le(v, best) == v <= best

\* line 223: val_loss < best_val_loss
Improved(v, best) == v < best

\* line 228: patience > self.patience and epoch > self.min_epochs
StopEarly(pat, ep) == pat > cfg_patience /\ ep > min_epochs

\* the explainer's constructor has built the critic and the per-feature
\* distributions and calls _train (lines 112-125, 260-263)
TrainInit ==
  /\ tr_kind \in {"classifier", "risk"}
  /\ epochs \in 1..MaxEpochs
  /\ cfg_patience \in 0..MaxPatience
  /\ min_epochs \in 0..MaxMinEpochs
  /\ n_epoch_print \in 1..MaxPrint
  /\ n_batches \in 1..MaxBatches
  /\ tr_pc = "start"
  /\ epoch = 0 /\ tr_b = 0 /\ patience = 0
  /\ best_val_loss = BEST_INIT /\ val_loss = 0
  /\ early_stop = FALSE
  /\ critic \in ParamSpace
  /\ critic_training = TRUE
  /\ grad_steps = 0 /\ invoked = {}
  /\ explain_x = << >> /\ explain_out = << >>
  /\ \E X \in [MaskRows -> [{1} -> {0, 1}]] : masking_values = UniqueColumns(X)
  /\ features_vector = << >> /\ selection_vector = << >>
  /\ sampled_mask = << >> /\ mk_equal = << >> /\ mk_result = << >>
  /\ mk_pc = "idle"
  /\ GenIdle /\ ImpIdle /\ CVIdle /\ LooIdle
  /\ BatchIdle

\* lines 162-188: the optimizer is made, the estimator predicts y, the data
\* is split and the epoch loop is entered
TrainStart ==
  /\ tr_pc = "start"
  /\ invoked' = {"estimator"}
  /\ tr_pc' = "batch"
  /\ UNCHANGED <<tr_kind, epochs, cfg_patience, min_epochs, n_epoch_print,
                 n_batches, epoch, tr_b, patience, best_val_loss, val_loss,
                 early_stop, critic, critic_training, grad_steps, explain_x,
                 explain_out, genVars, maskVars, impVars, cvVars, looVars, batchVars>>

\* lines 191-212: one mini-batch: a fresh target, one optimizer step
TrainBatch ==
  /\ tr_pc = "batch"
  /\ tr_b < n_batches
  /\ invoked' = {"builder", "masking", "estimator", "critic", "optimizer"}
  /\ critic' \in ParamSpace
  /\ grad_steps' = grad_steps + 1
  /\ tr_b' = tr_b + 1
  /\ tr_pc' = IF tr_b + 1 = n_batches THEN "epoch_end" ELSE "batch"
  /\ UNCHANGED <<tr_kind, epochs, cfg_patience, min_epochs, n_epoch_print,
                 n_batches, epoch, patience, best_val_loss, val_loss,
                 early_stop, critic_training, explain_x, explain_out,
                 genVars, maskVars, impVars, cvVars, looVars, batchVars>>

\* line 216 false: no validation in this epoch, the next epoch starts or the
\* loop ends and _train returns
EpochEnd ==
  /\ tr_pc = "epoch_end"
  /\ epoch % n_epoch_print # 0
  /\ invoked' = {}
  /\ epoch' = epoch + 1
  /\ tr_b' = 0
  /\ tr_pc' = IF epoch + 1 = epochs THEN "frozen" ELSE "batch"
  /\ UNCHANGED <<tr_kind, epochs, cfg_patience, min_epochs, n_epoch_print,
                 n_batches, patience, best_val_loss, val_loss, early_stop,
                 critic, critic_training, grad_steps, explain_x, explain_out,
                 genVars, maskVars, impVars, cvVars, looVars, batchVars>>

\* lines 216-229: the validation evaluation under torch.no_grad()
Validate ==
  /\ tr_pc = "epoch_end"
  /\ epoch % n_epoch_print = 0
  /\ invoked' = {"builder", "masking", "estimator", "critic"}
  /\ \E v \in ValLosses :
       /\ val_loss' = v
       /\ best_val_loss' = IF Improved(v, best_val_loss) THEN v
                           ELSE best_val_loss
       /\ patience' = IF Improved(v, best_val_loss) THEN 0 ELSE patience + 1
  /\ IF StopEarly(patience', epoch)
       THEN /\ early_stop' = TRUE
            /\ tr_pc' = "frozen"
            /\ UNCHANGED <<epoch, tr_b>>
       ELSE /\ early_stop' = FALSE
            /\ epoch' = epoch + 1
            /\ tr_b' = 0
            /\ tr_pc' = IF epoch + 1 = epochs THEN "frozen" ELSE "batch"
  /\ UNCHANGED <<tr_kind, epochs, cfg_patience, min_epochs, n_epoch_print,
                 n_batches, critic, critic_training, grad_steps, explain_x,
                 explain_out, genVars, maskVars, impVars, cvVars, looVars, batchVars>>

\* a variant of explain that rebuilds a target and steps the optimizer
Explain_refit ==
  /\ tr_pc = "frozen"
  /\ \E X \in ExplainInputs : \E keep \in [1..Len(X) -> [1..3 -> BOOLEAN]] :
       /\ explain_x' = X
       /\ explain_out' = CriticForward(tr_kind, critic, critic_training, X, keep)
  /\ invoked' = {"builder", "masking", "estimator", "critic", "optimizer"}
  /\ critic' \in ParamSpace
  /\ UNCHANGED <<tr_kind, epochs, cfg_patience, min_epochs, n_epoch_print,
                 n_batches, tr_pc, epoch, tr_b, patience, best_val_loss,
                 val_loss, early_stop, critic_training, grad_steps,
                 genVars, maskVars, impVars, cvVars, looVars, batchVars>>

\* explain (lines 278-285, 578-583): one forward pass of the critic, in the
\* mode the module is in
Explain ==
  /\ tr_pc = "frozen"
  /\ \E X \in ExplainInputs : \E keep \in [1..Len(X) -> [1..3 -> BOOLEAN]] :
       /\ explain_x' = X
       /\ explain_out' = CriticForward(tr_kind, critic, critic_training, X, keep)
  /\ invoked' = {"critic"}
  /\ UNCHANGED <<tr_kind, epochs, cfg_patience, min_epochs, n_epoch_print,
                 n_batches, tr_pc, epoch, tr_b, patience, best_val_loss,
                 val_loss, early_stop, critic, critic_training, grad_steps,
                 genVars, maskVars, impVars, cvVars, looVars, batchVars>>

TrainingStep == TrainStart \/ TrainBatch \/ EpochEnd \/ Validate

TrainNext == TrainingStep \/ Explain

\* _train runs to its end: a Python loop that can take a step takes it
SpecTrain == TrainInit /\ [][TrainNext]_vars /\ WF_vars(TrainingStep)

\* ------------------------------------------- Mini-batches of an epoch
\* np.round(n / d) for n, d > 0: halves go to the even neighbour
RoundHalfEven(n, d) ==
  LET q == n \div d
      r == n % d
  IN IF 2 * r < d THEN q
     ELSE IF 2 * r > d THEN q + 1
     ELSE IF q % 2 = 0 THEN q ELSE q + 1

\* the orders np.random.shuffle can leave np.arange(n) in
Shuffles(n) ==
  {p \in [1..n -> 0..(n - 1)] : \A j, k \in 1..n : p[j] = p[k] => j = k}

\* a[start:stop] for 0 <= start, stop
Slice(a, start, stop) == SubSeq(a, start + 1, Min2(stop, Len(a)))

\* line 193: train_indices[(b * batch_size) : min((b + 1) * batch_size, n - 1)]
BatchSlice(indices, b, size, n) ==
  Slice(indices, b * size, Min2((b + 1) * size, n - 1))

\* lines 181-185: n, batch_size, n_batches and train_indices are set
BatchInit ==
  /\ train_n \in 1..MaxTrainN
  /\ self_batch_size \in 1..MaxBatchSize
  /\ batch_size = IF self_batch_size < train_n THEN self_batch_size
                  ELSE train_n
  /\ epoch_batches = IF batch_size < train_n
                       THEN RoundHalfEven(train_n, batch_size)
                       ELSE 1
  /\ train_indices = [k \in 1..train_n |-> k - 1]
  /\ batch_b = 0 /\ batches = << >>
  /\ batch_pc = "shuffle"
  /\ GenIdle /\ MaskIdle /\ ImpIdle /\ TrainIdle /\ CVIdle /\ LooIdle

\* line 189: an epoch starts, the indices are shuffled in place
Shuffle ==
  /\ batch_pc = "shuffle"
  /\ train_indices' \in Shuffles(train_n)
  /\ batch_b' = 0 /\ batches' = << >>
  /\ batch_pc' = "batch"
  /\ UNCHANGED <<train_n, self_batch_size, batch_size, epoch_batches,
                 genVars, maskVars, impVars, trainVars, cvVars, looVars>>

\* lines 191-193: the batch b is selected
SelectBatch ==
  /\ batch_pc = "batch"
  /\ batch_b < epoch_batches
  /\ batches' = Append(batches,
                       BatchSlice(train_indices, batch_b, batch_size, train_n))
  /\ batch_b' = batch_b + 1
  /\ batch_pc' = IF batch_b + 1 = epoch_batches THEN "epoch_done" ELSE "batch"
  /\ UNCHANGED <<train_n, self_batch_size, batch_size, epoch_batches,
                 train_indices,
                 genVars, maskVars, impVars, trainVars, cvVars, looVars>>

\* the batch loop is over, the epoch loop goes on (line 188)
NextEpoch ==
  /\ batch_pc = "epoch_done"
  /\ batch_pc' = "shuffle"
  /\ UNCHANGED <<train_n, self_batch_size, batch_size, epoch_batches,
                 train_indices, batch_b, batches,
                 genVars, maskVars, impVars, trainVars, cvVars, looVars>>

BatchNext == Shuffle \/ SelectBatch \/ NextEpoch

SpecBatches == BatchInit /\ [][BatchNext]_vars

\* ----------------------------------------------------- Ensemble Layer
\* the importance scores one fold model's explain can return for a feature
OutVals == 0..MaxOut

\* the n_folds arguments (KFold needs at least two splits)
Folds == {2, 3}

\* the inputs invaseCV.explain is called with: one instance, two features
CVInputs == {<< <<1, 2>> >>, << <<2, 1>> >>}

RECURSIVE SumSeq(_)
SumSeq(q) == IF q = << >> THEN 0 ELSE Head(q) + SumSeq(Tail(q))

\* a variant of the mean that leaves the last output out of the sum
MeanAxis0_short(result) ==
  [i \in 1..Len(result[1]) |-> [f \in 1..Len(result[1][i]) |->
     << SumSeq([k \in 1..(Len(result) - 1) |-> result[k][i][f]]),
        Len(result) >>]]

\* np.mean(result, axis=0) (line 626): elementwise over the fold outputs
MeanAxis0(result) ==
  [i \in 1..Len(result[1]) |-> [f \in 1..Len(result[1][i]) |->
     << SumSeq([k \in 1..Len(result) |-> result[k][i][f]]), Len(result) >>]]

\* invaseCV.__init__ is entered (lines 602-604)
CVInit ==
  /\ n_folds \in Folds
  /\ fold_models = << >>
  /\ cv_pc = "construct"
  /\ cv_x = << >> /\ cv_result = << >> /\ cv_mean = << >>
  /\ GenIdle /\ MaskIdle /\ ImpIdle /\ TrainIdle /\ LooIdle
  /\ BatchIdle

\* lines 605-618: one split of KFold: a classifier is trained and appended
FoldTrain ==
  /\ cv_pc = "construct"
  /\ Len(fold_models) < n_folds
  /\ fold_models' = Append(fold_models,
                           [fold |-> Len(fold_models) + 1,
                            kind |-> "classifier"])
  /\ cv_pc' = IF Len(fold_models) + 1 = n_folds THEN "ready" ELSE "construct"
  /\ UNCHANGED <<n_folds, cv_x, cv_result, cv_mean,
                 genVars, maskVars, impVars, trainVars, looVars, batchVars>>

\* invaseCV.explain (lines 620-626): every fold model explains x, the
\* outputs are averaged
CVExplain ==
  /\ cv_pc = "ready"
  /\ \E x \in CVInputs :
     \E outs \in [1..Len(fold_models) ->
                    [1..Len(x) -> [1..Len(x[1]) -> OutVals]]] :
       /\ cv_x' = x
       /\ cv_result' = outs
       /\ cv_mean' = MeanAxis0(outs)
  /\ UNCHANGED <<n_folds, fold_models, cv_pc,
                 genVars, maskVars, impVars, trainVars, looVars, batchVars>>

CVNext == FoldTrain \/ CVExplain

SpecCV == CVInit /\ [][CVNext]_vars

\* ------------------------------------------------------------- claims

\* row i of the selection mask is constant v
SelectionRowIs(i, v) ==
  \A f \in 1..Len(selection_vector[i]) : selection_vector[i][f] = v

\* C5: after Masking.forward, for every instance: an all-ones selection row
\* returns the features unchanged; an all-zeros row returns, at every
\* position, a value of that feature's observed-value set or the sentinel;
\* and every position whose selection bit is 1 keeps its original value.
C5_MaskingForward ==
  mk_pc = "done" =>
    \A i \in 1..Len(features_vector) :
      /\ SelectionRowIs(i, 1) => mk_result[i] = features_vector[i]
      /\ SelectionRowIs(i, 0) =>
           \A f \in 1..Len(mk_result[i]) :
             mk_result[i][f] \in masking_values[f] \cup {SENTINEL}
      /\ \A f \in 1..Len(mk_result[i]) :
           selection_vector[i][f] = 1 =>
             mk_result[i][f] = features_vector[i][f]

\* a batch with one row fully kept and one row fully hidden, the hidden row
\* getting a real replacement and a sentinel
C5_Witness ==
  /\ mk_pc = "done"
  /\ SelectionRowIs(1, 1) /\ SelectionRowIs(2, 0)
  /\ mk_result[1] = features_vector[1]
  /\ mk_equal[2][1] /\ ~mk_equal[2][2]
  /\ mk_result[2][2] # SENTINEL
  /\ mk_result[2][2] # features_vector[2][2]

\* C6 as claimed: a hidden position whose draw equals the original value
\* holds a sentinel distinct from every observed value of that feature, so
\* the output there is never the original value.
C6_SentinelDistinct ==
  mk_pc = "done" =>
    \A i \in 1..Len(features_vector) : \A f \in 1..Len(features_vector[i]) :
      (selection_vector[i][f] = 0 /\ mk_equal[i][f]) =>
        /\ mk_result[i][f] \notin masking_values[f]
        /\ mk_result[i][f] # features_vector[i][f]

\* the call is the leave-one-out enumeration and has run to its end
LeaveOneOutDone == gen_done /\ gen_low = gen_n - 1 /\ gen_high = gen_n

\* C3: bitmask_intervals(F, F-1, F) yields exactly F masks of length F, each
\* with exactly one zero bit, and every position 1..F is the zero position of
\* exactly one yielded mask.
C3_LeaveOneOut ==
  LeaveOneOutDone =>
    /\ Len(gen_out) = gen_n
    /\ \A i \in 1..Len(gen_out) :
         /\ Len(gen_out[i]) = gen_n
         /\ Count(gen_out[i], 0) = 1
         /\ Count(gen_out[i], 1) = gen_n - 1
    /\ \A p \in 1..gen_n :
         Cardinality({i \in 1..Len(gen_out) : gen_out[i][p] = 0}) = 1

C3_Witness == LeaveOneOutDone /\ gen_n = 3 /\ Len(gen_out) = 3

\* the call is bitmask_intervals(n, 0, 1) and has run to its end
ZeroTierDone == gen_done /\ gen_low = 0 /\ gen_high = 1

\* C4 as claimed: for k = 0 the enumerator yields exactly one mask, all ones.
C4_Claimed_AllOnes ==
  ZeroTierDone => gen_out = << Repeat(1, gen_n) >>

\* C4 amended: for k = 0 and n >= 1 the enumerator yields exactly one mask
\* and it is the all-zeros mask (hide everything), never the all-ones mask.
C4_AllZeros ==
  ZeroTierDone =>
    /\ gen_out = << Repeat(0, gen_n) >>
    /\ gen_out # << Repeat(1, gen_n) >>

C4_Witness == ZeroTierDone /\ gen_n = 2 /\ Len(gen_out) = 1

\* the cells returned for instance i, each a fraction <<num, den>>
InstanceCells(i) ==
  IF imp_method = "risk"
    THEN {imp_out[i][f][h] : f \in 1..n_features, h \in 1..n_times}
    ELSE {imp_out[i][f] : f \in 1..n_features}

\* every cell lies in [0, 1], the smallest is 0 and the largest is
\* range / (range + EPS): 1 up to the epsilon, 0 for a constant row
MinMaxNormalized(cells) ==
  /\ \A c \in cells : 0 <= c[1] /\ c[1] <= c[2] /\ c[2] > 0
  /\ \E c \in cells : c[1] = 0
  /\ \E c \in cells : c[1] = c[2] - EPS

\* C2 as claimed: every target the builder returns is min-max normalised
\* per instance, for the normal, the optimized and the risk variant alike.
C2_Claimed_AllVariants ==
  imp_pc = "done" => \A i \in 1..len_x : MinMaxNormalized(InstanceCells(i))

\* C2 amended: the classification targets (normal and optimized) are
\* min-max normalised per instance: values in [0, 1], minimum 0, maximum
\* range / (range + EPS), constant rows all 0. The risk-estimation target is
\* the accumulator itself, not normalised.
C2_ClassifierNormalized ==
  imp_pc = "done" =>
    IF imp_method = "risk"
      THEN \A i \in 1..len_x : \A f \in 1..n_features : \A h \in 1..n_times :
             imp_out[i][f][h] = <<importance[i][f][h], 1>>
      ELSE \A i \in 1..len_x : MinMaxNormalized(InstanceCells(i))

\* a normal-strategy target whose first row had a positive minimum and
\* holds a value strictly between 0 and the maximum
C2_Witness ==
  /\ imp_pc = "done" /\ imp_method = "normal" /\ n_features = 3
  /\ MinOf(RowValues(importance[1])) > 0
  /\ \E f \in 1..n_features :
       0 < imp_out[1][f][1] /\ imp_out[1][f][1] < imp_out[1][f][2] - EPS

\* C10 as claimed: each sample of the batched interaction phase adds its
\* weighted loss to the columns of exactly the features of the sampled
\* subset, and changes no column of a feature outside it.
C10_SampledColumns ==
  [][(imp_method = "optimized" /\ imp_pc = "inter" /\ imp_pc' = "inter") =>
       \A i \in 1..len_x : \E l \in Losses : \A f \in 1..n_features :
         importance'[i][f] - importance[i][f] =
           IF f \in selected_features' THEN l ELSE 0]_vars

\* a step from a to b is a call of explain on the input of the call before
SameInputAgain ==
  /\ tr_pc = "frozen" /\ explain_x # << >>
  /\ explain_x' = explain_x

\* C1 as claimed: for a trained explainer, two calls of explain on the
\* same input return the same output.
C1_ExplainDeterministic ==
  [][SameInputAgain =>
       \A i \in 1..Len(explain_x) :
         FracEq(explain_out'[i][1], explain_out[i][1])]_vars

\* the step is a validation evaluation
ValidationStep == tr_pc = "epoch_end" /\ epoch % n_epoch_print = 0

\* C7: once construction has returned, explain calls leave the critic's
\* parameters and the per-feature distributions unchanged and invoke
\* neither the masking sampler, nor the target builder, nor the estimator;
\* the parameters change only in a mini-batch gradient step, never in a
\* validation evaluation.
C7_FrozenAfterTraining ==
  /\ [][tr_pc = "frozen" =>
          /\ tr_pc' = "frozen"
          /\ critic' = critic
          /\ grad_steps' = grad_steps
          /\ masking_values' = masking_values
          /\ invoked' \subseteq {"critic"}]_vars
  /\ [][critic' # critic =>
          /\ tr_pc = "batch"
          /\ grad_steps' = grad_steps + 1
          /\ "optimizer" \in invoked']_vars
  /\ [][ValidationStep =>
          /\ critic' = critic
          /\ grad_steps' = grad_steps
          /\ "optimizer" \notin invoked']_vars

\* a trained explainer (several gradient steps) that has answered explain
C7_Witness ==
  /\ tr_pc = "frozen" /\ grad_steps >= 2
  /\ explain_x # << >> /\ invoked = {"critic"}

\* C8: at a validation evaluation patience is reset to 0 exactly when the
\* loss is strictly below the best so far and is incremented otherwise;
\* patience changes nowhere else; training ends early only at a validation
\* evaluation where patience > self.patience and epoch > min_epochs, and does
\* end at the first such evaluation; otherwise it runs exactly n_epoch
\* epochs; and it always terminates.
C8_EarlyStopping ==
  /\ [][ValidationStep =>
          /\ val_loss' < best_val_loss =>
               patience' = 0 /\ best_val_loss' = val_loss'
          /\ val_loss' >= best_val_loss =>
               patience' = patience + 1 /\ best_val_loss' = best_val_loss
          /\ (patience' > cfg_patience /\ epoch > min_epochs) =>
               tr_pc' = "frozen" /\ early_stop' /\ epoch' = epoch]_vars
  /\ [][patience' # patience => ValidationStep]_vars
  /\ [][(early_stop' /\ ~early_stop) =>
          /\ ValidationStep
          /\ patience' > cfg_patience /\ epoch > min_epochs]_vars
  /\ [](tr_pc = "frozen" => IF early_stop THEN epoch < epochs
                            ELSE epoch = epochs)
  /\ [](epoch <= epochs)
  /\ <>(tr_pc = "frozen")

\* training stopped early, after a reset and later increments of patience
C8_Witness ==
  /\ tr_pc = "frozen" /\ early_stop
  /\ epoch + 1 < epochs /\ epoch > min_epochs /\ min_epochs > 0
  /\ patience = cfg_patience + 1 /\ best_val_loss < val_loss

\* the sum of g over the folds 1..k
RECURSIVE FoldSum(_, _, _)
FoldSum(k, i, f) ==
  IF k = 0 THEN 0 ELSE cv_result[k][i][f] + FoldSum(k - 1, i, f)

\* C9: invaseCV.explain(x) returns, elementwise, the arithmetic mean over
\* the fold models built at construction, exactly n_folds of them, of what
\* each fold model's explain(x) returned.
C9_EnsembleMean ==
  (cv_pc = "ready" /\ cv_x # << >>) =>
    /\ Len(fold_models) = n_folds
    /\ Len(cv_result) = n_folds
    /\ Len(cv_mean) = Len(cv_x)
    /\ \A i \in 1..Len(cv_x) :
         /\ Len(cv_mean[i]) = Len(cv_x[i])
         /\ \A f \in 1..Len(cv_x[i]) :
              cv_mean[i][f][1] * n_folds
                = FoldSum(n_folds, i, f) * cv_mean[i][f][2]

\* three folds returned different scores, the mean is not a whole number
C9_Witness ==
  /\ cv_pc = "ready" /\ cv_x # << >> /\ n_folds = 3
  /\ cv_result[1][1][1] = 0 /\ cv_result[2][1][1] = 1
  /\ cv_result[3][1][1] = 1
  /\ cv_mean[1][1] = <<2, 3>>
  /\ cv_result[1][1][2] # cv_result[1][1][1]

\* both leave-one-out phases have processed every mask
LooPhasesDone == loo_F > 0 /\ loo_i = loo_F /\ loo_c = loo_F

\* the features hidden by the masks after the first c and up to the d-th
HiddenIn(c, d) == {Hidden(all_masks[k]) : k \in (c + 1)..d}

\* C11: on the same loss for every (instance, hidden feature) pair the
\* batched leave-one-out phase ends with the accumulator of the
\* exhaustive one, importance[i][f] = max(0, loss of i with only f
\* hidden), for every feature count and number of chunks; a mask (a chunk)
\* changes no column but the one (those) it hides.
C11_LooEquivalent ==
  /\ [](LooPhasesDone =>
          /\ loo_batched = loo_normal
          /\ \A i \in 1..loo_B : \A f \in 1..loo_F :
               loo_normal[i][f] = Max2(0, loo_loss[i][f] * LOSS_UNIT))
  /\ [][loo_i' # loo_i =>
          \A i \in 1..loo_B : \A f \in 1..loo_F :
            f \notin HiddenIn(loo_i, loo_i') =>
              loo_normal'[i][f] = loo_normal[i][f]]_vars
  /\ [][loo_c' # loo_c =>
          \A i \in 1..loo_B : \A f \in 1..loo_F :
            f \notin HiddenIn(loo_c, loo_c') =>
              loo_batched'[i][f] = loo_batched[i][f]]_vars

\* three chunks or more, the last one short, with a loss below 0, a loss
\* of 0 and a loss above 0
C11_Witness ==
  /\ LooPhasesDone
  /\ loo_F > 2 * LooChunk /\ loo_F % LooChunk # 0
  /\ loo_loss[1][1] = 1 /\ loo_loss[1][2] = -1 /\ loo_loss[1][loo_F] = 0
  /\ loo_batched[1][1] = LOSS_UNIT /\ loo_batched[1][2] = 0

\* the exhaustive strategy is in (or past) its interaction loop
WindowLoop ==
  imp_method \in {"normal", "risk"} /\ imp_pc \in {"inter", "done"}

\* M, the number of masks of the interaction-tier enumeration
TierSize == Len(InteractionMasks(imp_method, n_features))

\* C12: the exhaustive strategy consumes the interaction tier in
\* consecutive windows of exactly len(x) masks, stops at the first window
\* that is shorter and never scores it: floor(M / B) windows are scored,
\* each in n_epoch_inner passes, and none when M < B.
C12_Windows ==
  /\ [](WindowLoop =>
          LET M == TierSize IN
          /\ imp_consumed = Min2(imp_windows * len_x + len_x, M)
          /\ Len(next_slice) = imp_consumed - imp_windows * len_x
          /\ Len(next_slice) <= len_x
          /\ imp_inner > 0 => Len(next_slice) = len_x
          /\ M < len_x => imp_windows = 0 /\ imp_inner = 0
          /\ imp_pc = "done" =>
               /\ imp_windows = M \div len_x
               /\ Len(next_slice) = M % len_x
               /\ imp_inner = 0)
  /\ [][(imp_method \in {"normal", "risk"}
          /\ (next_slice' # next_slice \/ imp_consumed' # imp_consumed)) =>
            next_slice' = SubSeq(InteractionMasks(imp_method, n_features),
                                 imp_consumed + 1, imp_consumed')]_vars
  /\ [][WindowLoop =>
          /\ importance' # importance =>
               /\ Len(next_slice) = len_x
               /\ imp_inner < epochs_inner
               /\ imp_inner' = imp_inner + 1
               /\ next_slice' = next_slice
          /\ imp_windows' # imp_windows =>
               /\ imp_windows' = imp_windows + 1
               /\ imp_inner = epochs_inner
               /\ Len(next_slice) = len_x
          /\ (imp_pc' = "done" /\ imp_pc # "done") =>
               importance' = importance /\ Len(next_slice) < len_x]_vars

\* a window was scored in two passes and a short, non-empty last window
\* was dropped
C12_Witness ==
  /\ WindowLoop /\ imp_pc = "done"
  /\ len_x > 1 /\ epochs_inner = 2
  /\ imp_windows = 1
  /\ Len(next_slice) > 0 /\ Len(next_slice) < len_x
  /\ \E i \in 1..len_x : \E f \in 1..n_features :
       IF imp_method = "risk" THEN importance[i][f][1] % LOSS_UNIT # 0
       ELSE importance[i][f] % LOSS_UNIT # 0

\* the call is bitmask_intervals(F, F - 3, F - 1) (lines 359-361) and has
\* run to its end
InteractionTierDone ==
  gen_done /\ gen_low = gen_n - 3 /\ gen_high = gen_n - 1

\* C13 as claimed: for every F >= 1, bitmask_intervals(F, F-3, F-1) yields
\* only masks with 2 or 3 zero bits, and every such mask of length F
\* exactly once.
C13_InteractionTier ==
  InteractionTierDone =>
    /\ \A k \in 1..Len(gen_out) :
         /\ Len(gen_out[k]) = gen_n
         /\ Count(gen_out[k], 0) \in {2, 3}
    /\ \A j, k \in 1..Len(gen_out) : gen_out[j] = gen_out[k] => j = k
    /\ \A m \in [1..gen_n -> {0, 1}] :
         Count(m, 0) \in {2, 3} => \E k \in 1..Len(gen_out) : gen_out[k] = m

\* the indices of batch k of the epoch
BatchSet(k) == {batches[k][j] : j \in 1..Len(batches[k])}

\* C14 as claimed: in every epoch, for every n >= 1 and batch size >= 1,
\* the mini-batches are pairwise disjoint, each is non-empty with at most
\* batch_size instances, and every training index is in exactly one.
C14_Partition ==
  batch_pc = "epoch_done" =>
    /\ \A j, k \in 1..Len(batches) :
         j # k => BatchSet(j) \cap BatchSet(k) = {}
    /\ \A k \in 1..Len(batches) :
         Len(batches[k]) >= 1 /\ Len(batches[k]) <= batch_size
    /\ \A v \in 0..(train_n - 1) :
         Cardinality({k \in 1..Len(batches) : v \in BatchSet(k)}) = 1

====
